---------------------------- MODULE Spec2Model ----------------------------
(***************************************************************************)
(* Model of the signal analysis of tremere-l/candle:                       *)
(*   src/analyze_network.py  load_data, analyze_data and the script's      *)
(*                           __main__ block that calls them;               *)
(*   src/app.py              the upload handler: the per-file metrics loop,*)
(*                           the concatenation and the call of             *)
(*                           analyze_data.                                 *)
(*                                                                         *)
(* A DataFrame is a sequence of rows; a row is a record with the columns   *)
(* Latitude, Longitude, SignalStrength_dBm and Time.  A cell is a tagged   *)
(* value: a number, the missing value (NaN / NaT), or a text.              *)
(*                                                                         *)
(* Units.  Coordinates are angles counted in units of 1/(100 * 6371000)    *)
(* radian, so that one unit of arc is one centimetre of ground distance    *)
(* and the query radius 10 / 6371000 radian is 1000 units.  All modelled   *)
(* points lie within a few dozen metres of each other, where the haversine *)
(* distance agrees with the planar distance of the angle differences.      *)
(***************************************************************************)
EXTENDS Integers, Sequences, FiniteSets, TLC

VARIABLES
    entry,                   \* which program runs: the script or the app
    pc,                      \* where the running program is
    files,                   \* the CSV files, as read_csv returns them
    rerun,                   \* the script has been run again (a file added)
    first_run,               \* outcome of the run before the rerun
    arg_before,              \* the caller's frame as it was at the call
    df,                      \* analyze_data's df: the CALLER's frame object
    df_clean,                \* analyze_network.py:33
    df_valid_signal,         \* analyze_network.py:49
    df_invalid_signal,       \* analyze_network.py:63
    confirmed_no_signal_df,  \* analyze_network.py:65, 87
    ret,                     \* the value analyze_data returns
    percentages,             \* the percentages analyze_data has printed
    valid_df,                \* the caller's unpacked names
    no_signal_df,
    fi,                      \* app.py: index of the uploaded file in the loop
    file_df,                 \* app.py:42  df of the file being processed
    file_clean,              \* app.py:48  df_clean of the file being processed
    file_cleans,             \* per file, df_clean as app.py:49 left it
    df_list,                 \* app.py:36
    total_duration_seconds   \* app.py:37

vars == <<entry, pc, files, rerun, first_run, arg_before, df, df_clean,
          df_valid_signal, df_invalid_signal, confirmed_no_signal_df, ret,
          percentages, valid_df, no_signal_df, fi, file_df, file_clean, file_cleans,
          df_list, total_duration_seconds>>

analysis_vars == <<df_clean, df_valid_signal, df_invalid_signal,
                   confirmed_no_signal_df, ret, percentages>>

app_vars == <<fi, file_df, file_clean, file_cleans, df_list,
              total_duration_seconds>>

---------------------------------------------------------------------------
(* Bounds of the model *)

MaxRows == 2

MaxFiles == 2

MaxUploadRows == 3

---------------------------------------------------------------------------
(* Program constants *)

MinValidDbm == -150

MaxValidDbm == 0

RadiusMetres == 10

EarthRadiusMetres == 6371000

---------------------------------------------------------------------------
(* Cells *)

Num(k) == [t |-> "num", n |-> k, s |-> <<>>]

NaN == [t |-> "nan", n |-> 0, s |-> <<>>]

Text(chars) == [t |-> "str", n |-> 0, s |-> chars]

Digits == {"0", "1", "2", "3", "4", "5", "6", "7", "8", "9"}

DigitValue(c) ==
    CASE c = "0" -> 0 [] c = "1" -> 1 [] c = "2" -> 2 [] c = "3" -> 3
      [] c = "4" -> 4 [] c = "5" -> 5 [] c = "6" -> 6 [] c = "7" -> 7
      [] c = "8" -> 8 [] c = "9" -> 9

IsDigits(chars) ==
    /\ Len(chars) > 0
    /\ \A k \in 1..Len(chars) : chars[k] \in Digits

RECURSIVE ParseDigits(_)
ParseDigits(chars) ==
    IF chars = <<>> THEN 0
    ELSE 10 * ParseDigits(SubSeq(chars, 1, Len(chars) - 1))
         + DigitValue(chars[Len(chars)])

(* pd.to_numeric(x, errors='coerce') on one cell: a number stays, a text   *)
(* that is a number is parsed, anything else becomes NaN.                  *)
to_numeric(v) ==
    CASE v.t = "num" -> v
      [] v.t = "nan" -> NaN
      [] v.t = "str" -> IF IsDigits(v.s) THEN Num(ParseDigits(v.s)) ELSE NaN

(* pd.to_datetime(x, errors='coerce') on one cell.  A timestamp text is    *)
(* modelled by its minutes and seconds, "MM:SS"; the result is the number  *)
(* of seconds, or NaT (the missing value) when the text does not parse.    *)
to_datetime(v) ==
    CASE v.t = "num" -> v
      [] v.t = "nan" -> NaN
      [] v.t = "str" ->
            IF /\ Len(v.s) = 5
               /\ v.s[3] = ":"
               /\ \A k \in {1, 2, 4, 5} : v.s[k] \in Digits
               /\ ParseDigits(SubSeq(v.s, 1, 2)) < 60
               /\ ParseDigits(SubSeq(v.s, 4, 5)) < 60
            THEN Num(60 * ParseDigits(SubSeq(v.s, 1, 2))
                     + ParseDigits(SubSeq(v.s, 4, 5)))
            ELSE NaN

notna(v) == v.t # "nan"

(* Comparisons of a float cell with a number: every ordered comparison     *)
(* with NaN is False, and NaN != k is True.                                *)
Gt(v, k) == v.t = "num" /\ v.n > k

Lt(v, k) == v.t = "num" /\ v.n < k

Le(v, k) == v.t = "num" /\ v.n <= k

Ne(v, k) == ~(v.t = "num" /\ v.n = k)

---------------------------------------------------------------------------
(* Frames *)

Columns == <<"Latitude", "Longitude", "SignalStrength_dBm", "Time">>

Row(lat, lon, dbm, time) ==
    [Latitude |-> lat, Longitude |-> lon, SignalStrength_dBm |-> dbm,
     Time |-> time]

empty(frame) == Len(frame) = 0

RECURSIVE concat(_)
concat(frames) ==
    IF frames = <<>> THEN <<>>
    ELSE concat(SubSeq(frames, 1, Len(frames) - 1)) \o frames[Len(frames)]

Range(frame) == {frame[k] : k \in 1..Len(frame)}

(* Boolean-mask indexing, frame[mask]: the rows whose mask entry is True,   *)
(* in the frame's order.                                                   *)
RECURSIVE mask_select(_, _)
mask_select(frame, mask) ==
    IF frame = <<>> THEN <<>>
    ELSE LET n == Len(frame)
             head == mask_select(SubSeq(frame, 1, n - 1),
                                 [k \in 1..(n - 1) |-> mask[k]])
         IN  IF mask[n] THEN Append(head, frame[n]) ELSE head

---------------------------------------------------------------------------
(* analyze_network.py: load_data and analyze_data, step by step *)

(* load_data, lines 19-23: the files read are concatenated. *)
load_data(read) == IF read = <<>> THEN <<>> ELSE concat(read)

(* lines 30-31 (and app.py:46-47): both coordinate columns are replaced,   *)
(* in the frame the caller passed, by their numeric coercion.              *)
coerce_coordinates(frame) ==
    [k \in 1..Len(frame) |->
        [frame[k] EXCEPT !.Latitude = to_numeric(frame[k].Latitude),
                         !.Longitude = to_numeric(frame[k].Longitude)]]

(* The mask without its test of a zero longitude: C8 must tell it apart. *)
location_mask_lat_only(frame) ==
    [k \in 1..Len(frame) |->
        /\ notna(frame[k].Latitude)
        /\ notna(frame[k].Longitude)
        /\ Ne(frame[k].Latitude, 0)]

(* lines 33-38: the mask of rows with a usable location. *)
location_mask(frame) ==
    [k \in 1..Len(frame) |->
        /\ notna(frame[k].Latitude)
        /\ notna(frame[k].Longitude)
        /\ Ne(frame[k].Latitude, 0)
        /\ Ne(frame[k].Longitude, 0)]

(* The mask with -150 let in: C7 must tell it apart. *)
valid_signal_mask_closed(frame) ==
    [k \in 1..Len(frame) |->
        /\ ~Lt(frame[k].SignalStrength_dBm, MinValidDbm)
        /\ notna(frame[k].SignalStrength_dBm)
        /\ Lt(frame[k].SignalStrength_dBm, MaxValidDbm)]

(* lines 49-52 *)
valid_signal_mask(frame) ==
    [k \in 1..Len(frame) |->
        /\ Gt(frame[k].SignalStrength_dBm, MinValidDbm)
        /\ Lt(frame[k].SignalStrength_dBm, MaxValidDbm)]

(* line 63 *)
invalid_signal_mask(frame) ==
    [k \in 1..Len(frame) |-> Le(frame[k].SignalStrength_dBm, MinValidDbm)]

(* One unit of angle is 1/UnitsPerRadian radian. *)
UnitsPerRadian == 100 * EarthRadiusMetres

(* line 79: radius_radians = 10 / 6371000, in units of angle. *)
radius_radians == RadiusMetres * (UnitsPerRadian \div EarthRadiusMetres)

(* The haversine metric of BallTree (line 75) on two coordinate pairs, as  *)
(* the square of the distance in units of angle.                           *)
haversine_sq(p, q) ==
    (p.Latitude.n - q.Latitude.n) * (p.Latitude.n - q.Latitude.n)
    + (p.Longitude.n - q.Longitude.n) * (p.Longitude.n - q.Longitude.n)

(* The count with an open boundary: C4 must tell it apart. *)
query_radius_count_open(indexed, point, r) ==
    Cardinality({k \in 1..Len(indexed) :
                    haversine_sq(indexed[k], point) < r * r})

(* BallTree.query_radius(point, r, count_only=True), line 83: the number   *)
(* of indexed points at distance at most r from the query point.           *)
query_radius_count(indexed, point, r) ==
    Cardinality({k \in 1..Len(indexed) :
                    haversine_sq(indexed[k], point) <= r * r})

(* line 86: no_signal_mask = counts == 0 *)
no_signal_mask(invalid, valid) ==
    [k \in 1..Len(invalid) |->
        query_radius_count(valid, invalid[k], radius_radians) = 0]

(* lines 55 and 91: len(part) / len(whole) * 100 as it is printed, in      *)
(* hundredths of a percent; the division raises when len(whole) is 0.      *)
percentage(figure, part, whole) ==
    [figure |-> figure,
     denominator |-> Len(whole),
     value |-> IF Len(whole) = 0 THEN -1
               ELSE (Len(part) * 10000) \div Len(whole)]

(* The test without its invalid-signal half: C11 must tell it apart. *)
confirm_guard_valid_only(invalid, valid) == ~empty(valid)

(* line 67: if not df_invalid_signal.empty and not df_valid_signal.empty *)
confirm_guard(invalid, valid) == ~empty(invalid) /\ ~empty(valid)

(* What the caller's "a, b = analyze_data(df)" iterates over: the items of *)
(* a tuple, or the column labels of a DataFrame.                           *)
iterate(value) ==
    IF value.kind = "tuple" THEN value.items ELSE Columns

NoReturn == [kind |-> "none", items |-> <<>>]

FrameValue(frame) == [kind |-> "frame", items |-> <<frame>>]

TupleValue(a, b) == [kind |-> "tuple", items |-> <<a, b>>]

NoRun == [ended |-> "none", no_signal_df |-> <<>>]

---------------------------------------------------------------------------
(* app.py: the per-file pre-processing of the upload handler *)

(* line 48: df.dropna(subset=['Latitude', 'Longitude']) *)
dropna_coordinates(frame) ==
    mask_select(frame,
                [k \in 1..Len(frame) |->
                    notna(frame[k].Latitude) /\ notna(frame[k].Longitude)])

(* line 49 *)
nonzero_mask(frame) ==
    [k \in 1..Len(frame) |->
        Ne(frame[k].Latitude, 0) /\ Ne(frame[k].Longitude, 0)]

(* line 54 *)
parse_time(frame) ==
    [k \in 1..Len(frame) |->
        [frame[k] EXCEPT !.Time = to_datetime(frame[k].Time)]]

(* line 55: dropna(subset=['Time']) *)
dropna_time(frame) ==
    mask_select(frame, [k \in 1..Len(frame) |-> notna(frame[k].Time)])

(* The frame left in file order: C9 must tell it apart. *)
sort_values_skipped(frame) == frame

(* line 55: sort_values('Time'), ascending; an insertion sort.  Rows with  *)
(* equal times keep their order here; the duration reads only the times.   *)
RECURSIVE sort_values(_)
sort_values(frame) ==
    IF frame = <<>> THEN <<>>
    ELSE LET n == Len(frame)
             sorted == sort_values(SubSeq(frame, 1, n - 1))
             row == frame[n]
             before == SelectSeq(sorted, LAMBDA r : r.Time.n <= row.Time.n)
             after == SelectSeq(sorted, LAMBDA r : r.Time.n > row.Time.n)
         IN  before \o <<row>> \o after

(* lines 59-61: (end_time - start_time).total_seconds() of a sorted,       *)
(* non-empty frame                                                         *)
file_duration(sorted) == sorted[Len(sorted)].Time.n - sorted[1].Time.n

---------------------------------------------------------------------------
(* The inputs of the model *)

GoodTime == Text(<<"0", "0", ":", "3", "0">>)

(* Five locations: B is exactly 1000 units from A, C is 999 units from A,  *)
(* D is 1001 units from A, E is far from all of them.                      *)
Locations ==
    { <<1000, 500>>, <<1800, 1100>>, <<1999, 500>>, <<2001, 500>>,
      <<3500, 500>> }

SignalRows ==
    { Row(Num(l[1]), Num(l[2]), Num(d), GoodTime) :
        l \in Locations, d \in {-80, -160} }

BoundaryRows ==
    { Row(Num(3500), Num(500), d, GoodTime) :
        d \in {Num(-150), Num(-149), Num(-1), Num(0), NaN} }

BadLocationRows ==
    { Row(lat, Num(500), Num(-80), GoodTime) :
        lat \in {Num(0), NaN, Text(<<"x">>), Text(<<"0">>)} }
    \cup
    { Row(Num(1000), lon, Num(-160), GoodTime) :
        lon \in {Num(0), Text(<<"5", "x">>)} }
    \cup
    { Row(Text(<<"1", "0", "0", "0">>), Text(<<"5", "0", "0">>), Num(-160),
          GoodTime) }

AnalysisRows == SignalRows \cup BoundaryRows \cup BadLocationRows

(* The rows a rerun may add: one more file holding one valid-signal row. *)
AddedRows ==
    { Row(Num(l[1]), Num(l[2]), Num(-80), GoodTime) :
        l \in { <<1000, 500>>, <<1800, 1100>>, <<3500, 500>> } }

FramesOf(rows, n) == UNION { [1..k -> rows] : k \in 0..n }

(* Rows of uploaded files: timestamps in and out of order, timestamps that *)
(* do not parse, and rows without a usable location.                       *)
TimeTexts ==
    { <<"0", "0", ":", "3", "0">>, <<"0", "1", ":", "0", "0">>,
      <<"0", "2", ":", "0", "0">>, <<"0", "0", ":", "7", "5">> }

UploadRows ==
    { Row(Num(1000), Num(500), Num(-80), Text(t)) : t \in TimeTexts }
    \cup
    { Row(Num(0), Num(500), Num(-80), Text(<<"0", "0", ":", "1", "0">>)),
      Row(Text(<<"x">>), Num(500), Num(-160),
          Text(<<"0", "3", ":", "0", "0">>)) }

(* the ways of cutting a frame into n consecutive files *)
Cuts(frame, n) ==
    { c \in [0..n -> 0..Len(frame)] :
        /\ c[0] = 0
        /\ c[n] = Len(frame)
        /\ \A k \in 1..n : c[k - 1] <= c[k] }

Split(frame, n, c) == [k \in 1..n |-> SubSeq(frame, c[k - 1] + 1, c[k])]

(* up to MaxFiles uploaded files holding up to MaxUploadRows rows in all *)
Uploads ==
    UNION { UNION { { Split(f, n, c) : c \in Cuts(f, n) } : n \in 0..MaxFiles }
            : f \in FramesOf(UploadRows, MaxUploadRows) }

---------------------------------------------------------------------------
(* analyze_network.py run as a script: __main__, lines 277-287 *)

Init ==
    /\ \/ /\ entry = "script"
          /\ pc = "main"
          /\ files \in { <<f>> : f \in FramesOf(AnalysisRows, MaxRows) }
       \/ /\ entry = "app"
          /\ pc = "app"
          /\ files \in Uploads
    /\ rerun = FALSE
    /\ first_run = NoRun
    /\ arg_before = <<>>
    /\ df = <<>>
    /\ df_clean = <<>>
    /\ df_valid_signal = <<>>
    /\ df_invalid_signal = <<>>
    /\ confirmed_no_signal_df = <<>>
    /\ ret = NoReturn
    /\ percentages = <<>>
    /\ valid_df = <<>>
    /\ no_signal_df = <<>>
    /\ fi = 0
    /\ file_df = <<>>
    /\ file_clean = <<>>
    /\ file_cleans = <<>>
    /\ df_list = <<>>
    /\ total_duration_seconds = 0

(* lines 278-281, 286-287: load the directory; analyze unless it is empty *)
MainLoad ==
    /\ pc = "main"
    /\ entry = "script"
    /\ df' = load_data(files)
    /\ arg_before' = df'
    /\ pc' = IF empty(df') THEN "no_data" ELSE "coerce"
    /\ UNCHANGED <<entry, files, rerun, first_run, analysis_vars, valid_df,
                   no_signal_df, app_vars>>

(* lines 30-31 *)
CoerceCoordinates ==
    /\ pc = "coerce"
    /\ df' = coerce_coordinates(df)
    /\ pc' = "clean"
    /\ UNCHANGED <<entry, files, rerun, first_run, arg_before, analysis_vars,
                   valid_df, no_signal_df, app_vars>>

(* lines 33-38 *)
FilterLocation ==
    /\ pc = "clean"
    /\ df_clean' = mask_select(df, location_mask(df))
    /\ pc' = "clean_check"
    /\ UNCHANGED <<entry, files, rerun, first_run, arg_before, df, df_valid_signal,
                   df_invalid_signal, confirmed_no_signal_df, ret, valid_df,
                   no_signal_df, percentages,
                   app_vars>>

(* lines 42-44: return df_clean, a single frame *)
ReturnNoLocation ==
    /\ pc = "clean_check"
    /\ empty(df_clean)
    /\ ret' = FrameValue(df_clean)
    /\ pc' = "returned"
    /\ UNCHANGED <<entry, files, rerun, first_run, arg_before, df, df_clean,
                   df_valid_signal, df_invalid_signal, confirmed_no_signal_df,
                   valid_df, no_signal_df, percentages,
                   app_vars>>

(* lines 49-55: the valid-signal set and its percentage of df_clean *)
FilterValidSignal ==
    /\ pc = "clean_check"
    /\ ~empty(df_clean)
    /\ df_valid_signal' = mask_select(df_clean, valid_signal_mask(df_clean))
    /\ percentages' =
          Append(percentages,
                 percentage("valid_signal", df_valid_signal', df_clean))
    /\ pc' = IF empty(df_clean) THEN "ZeroDivisionError" ELSE "valid_check"
    /\ UNCHANGED <<entry, files, rerun, first_run, arg_before, df, df_clean,
                   df_invalid_signal, confirmed_no_signal_df, ret, valid_df,
                   no_signal_df, app_vars>>

(* lines 57-59: return df_clean, pd.DataFrame() *)
ReturnNoValidSignal ==
    /\ pc = "valid_check"
    /\ empty(df_valid_signal)
    /\ ret' = TupleValue(df_clean, <<>>)
    /\ pc' = "returned"
    /\ UNCHANGED <<entry, files, rerun, first_run, arg_before, df, df_clean,
                   df_valid_signal, df_invalid_signal, confirmed_no_signal_df,
                   valid_df, no_signal_df, percentages,
                   app_vars>>

(* lines 63-65 *)
FilterInvalidSignal ==
    /\ pc = "valid_check"
    /\ ~empty(df_valid_signal)
    /\ df_invalid_signal' =
          mask_select(df_clean, invalid_signal_mask(df_clean))
    /\ confirmed_no_signal_df' = <<>>
    /\ pc' = "confirm"
    /\ UNCHANGED <<entry, files, rerun, first_run, arg_before, df, df_clean,
                   df_valid_signal, ret, valid_df, no_signal_df, percentages,
                   app_vars>>

(* lines 67-91 *)
ConfirmNoSignal ==
    /\ pc = "confirm"
    /\ confirmed_no_signal_df' =
          IF confirm_guard(df_invalid_signal, df_valid_signal)
          THEN mask_select(df_invalid_signal,
                           no_signal_mask(df_invalid_signal, df_valid_signal))
          ELSE confirmed_no_signal_df
    /\ percentages' =
          IF confirm_guard(df_invalid_signal, df_valid_signal)
          THEN Append(percentages,
                      percentage("confirmed_no_signal",
                                 confirmed_no_signal_df', df_invalid_signal))
          ELSE percentages
    /\ pc' = IF /\ confirm_guard(df_invalid_signal, df_valid_signal)
                /\ empty(df_invalid_signal)
             THEN "ZeroDivisionError"
             ELSE "report"
    /\ UNCHANGED <<entry, files, rerun, first_run, arg_before, df, df_clean,
                   df_valid_signal, df_invalid_signal, ret, valid_df,
                   no_signal_df, app_vars>>

(* lines 93-105: return df_valid_signal, confirmed_no_signal_df *)
ReturnResult ==
    /\ pc = "report"
    /\ ret' = TupleValue(df_valid_signal, confirmed_no_signal_df)
    /\ pc' = "returned"
    /\ UNCHANGED <<entry, files, rerun, first_run, arg_before, df, df_clean,
                   df_valid_signal, df_invalid_signal, confirmed_no_signal_df,
                   valid_df, no_signal_df, percentages,
                   app_vars>>

(* analyze_network.py:281 and app.py:84:                                   *)
(*     valid_df, no_signal_df = analyze_data(...)                          *)
UnpackResult ==
    /\ pc = "returned"
    /\ Len(iterate(ret)) = 2
    /\ valid_df' = iterate(ret)[1]
    /\ no_signal_df' = iterate(ret)[2]
    /\ pc' = "done"
    /\ UNCHANGED <<entry, files, rerun, first_run, arg_before, df, analysis_vars,
                   app_vars>>

(* the same statement when the value does not iterate to two items:        *)
(* ValueError, which nothing catches                                       *)
UnpackRaises ==
    /\ pc = "returned"
    /\ Len(iterate(ret)) # 2
    /\ pc' = "ValueError"
    /\ UNCHANGED <<entry, files, rerun, first_run, arg_before, df, analysis_vars,
                   valid_df, no_signal_df, app_vars>>

(* The script is run again after one more CSV file, holding one            *)
(* valid-signal row, was added to the directory: every run starts from     *)
(* the files alone (analyze_network.py:278-281).  Only the script is run   *)
(* a second time here; a second upload to the app is a new initial state.  *)
Rerun ==
    /\ entry = "script"
    /\ pc \in {"done", "ValueError", "no_data"}
    /\ ~rerun
    /\ \E r \in AddedRows : files' = Append(files, <<r>>)
    /\ rerun' = TRUE
    /\ first_run' = [ended |-> pc, no_signal_df |-> no_signal_df]
    /\ pc' = "main"
    /\ arg_before' = <<>>
    /\ df' = <<>>
    /\ df_clean' = <<>>
    /\ df_valid_signal' = <<>>
    /\ df_invalid_signal' = <<>>
    /\ confirmed_no_signal_df' = <<>>
    /\ ret' = NoReturn
    /\ percentages' = <<>>
    /\ valid_df' = <<>>
    /\ no_signal_df' = <<>>
    /\ UNCHANGED <<entry, app_vars>>

---------------------------------------------------------------------------
(* app.py: the upload handler, lines 33-84.  The files are those read_csv  *)
(* reads; total_distance_km (lines 64-74) is not modelled.                 *)

run_vars == <<entry, files, rerun, first_run>>

(* lines 33-38 *)
AppStart ==
    /\ pc = "app"
    /\ entry = "app"
    /\ df_list' = <<>>
    /\ total_duration_seconds' = 0
    /\ fi' = 1
    /\ pc' = IF files = <<>> THEN "instructions" ELSE "read_file"
    /\ UNCHANGED <<run_vars, arg_before, df, analysis_vars, valid_df,
                   no_signal_df, file_df, file_clean, file_cleans>>

(* lines 40-42 *)
ReadFile ==
    /\ pc = "read_file"
    /\ file_df' = files[fi]
    /\ pc' = "file_coerce"
    /\ UNCHANGED <<run_vars, arg_before, df, analysis_vars, valid_df,
                   no_signal_df, fi, file_clean, file_cleans, df_list,
                   total_duration_seconds>>

(* lines 46-47 *)
FileCoerce ==
    /\ pc = "file_coerce"
    /\ file_df' = coerce_coordinates(file_df)
    /\ pc' = "file_clean"
    /\ UNCHANGED <<run_vars, arg_before, df, analysis_vars, valid_df,
                   no_signal_df, fi, file_clean, file_cleans, df_list,
                   total_duration_seconds>>

(* lines 48-49 *)
FileClean ==
    /\ pc = "file_clean"
    /\ LET kept == dropna_coordinates(file_df)
       IN  file_clean' = mask_select(kept, nonzero_mask(kept))
    /\ file_cleans' = Append(file_cleans, file_clean')
    /\ pc' = "file_metrics"
    /\ UNCHANGED <<run_vars, arg_before, df, analysis_vars, valid_df,
                   no_signal_df, fi, file_df, df_list,
                   total_duration_seconds>>

(* lines 51-62 *)
FileMetrics ==
    /\ pc = "file_metrics"
    /\ IF ~empty(file_clean)
       THEN LET sorted == sort_values(dropna_time(parse_time(file_clean)))
            IN  /\ file_clean' = sorted
                /\ total_duration_seconds' =
                      IF ~empty(sorted)
                      THEN total_duration_seconds + file_duration(sorted)
                      ELSE total_duration_seconds
       ELSE UNCHANGED <<file_clean, total_duration_seconds>>
    /\ pc' = "file_append"
    /\ UNCHANGED <<run_vars, arg_before, df, analysis_vars, valid_df,
                   no_signal_df, fi, file_df, file_cleans, df_list>>

(* line 76, and the loop's next iteration *)
FileAppend ==
    /\ pc = "file_append"
    /\ df_list' = Append(df_list, file_df)
    /\ fi' = fi + 1
    /\ pc' = IF fi < Len(files) THEN "read_file" ELSE "concat"
    /\ UNCHANGED <<run_vars, arg_before, df, analysis_vars, valid_df,
                   no_signal_df, file_df, file_clean, file_cleans,
                   total_duration_seconds>>

(* lines 80-84, 154-155: combined_df is handed to analyze_data *)
AppConcat ==
    /\ pc = "concat"
    /\ IF df_list # <<>>
       THEN /\ df' = concat(df_list)
            /\ arg_before' = df'
            /\ pc' = "coerce"
       ELSE /\ pc' = "no_files"
            /\ UNCHANGED <<df, arg_before>>
    /\ UNCHANGED <<run_vars, analysis_vars, valid_df, no_signal_df, app_vars>>

Upload ==
    \/ AppStart
    \/ ReadFile
    \/ FileCoerce
    \/ FileClean
    \/ FileMetrics
    \/ FileAppend
    \/ AppConcat

Analyze ==
    \/ CoerceCoordinates
    \/ FilterLocation
    \/ ReturnNoLocation
    \/ FilterValidSignal
    \/ ReturnNoValidSignal
    \/ FilterInvalidSignal
    \/ ConfirmNoSignal
    \/ ReturnResult
    \/ UnpackResult
    \/ UnpackRaises

Next ==
    \/ MainLoad
    \/ Upload
    \/ Analyze
    \/ Rerun

Spec == Init /\ [][Next]_vars

---------------------------------------------------------------------------
(* The sets of the data model, stated on rows, for the properties below *)

IsNumericCell(v) == v.t = "num" \/ (v.t = "str" /\ IsDigits(v.s))

NumericValue(v) == IF v.t = "num" THEN v.n ELSE ParseDigits(v.s)

(* both coordinates numeric, not missing, and not zero *)
HasUsableLocation(r) ==
    /\ IsNumericCell(r.Latitude) /\ NumericValue(r.Latitude) # 0
    /\ IsNumericCell(r.Longitude) /\ NumericValue(r.Longitude) # 0

(* -150 < strength < 0 *)
IsValidSignal(r) ==
    /\ r.SignalStrength_dBm.t = "num"
    /\ r.SignalStrength_dBm.n \in (MinValidDbm + 1)..(MaxValidDbm - 1)

(* strength <= -150 *)
IsInvalidSignal(r) ==
    /\ r.SignalStrength_dBm.t = "num"
    /\ ~(r.SignalStrength_dBm.n > MinValidDbm)

(* strength >= 0 *)
IsSentinelSignal(r) ==
    /\ r.SignalStrength_dBm.t = "num"
    /\ ~(r.SignalStrength_dBm.n < MaxValidDbm)

IsMissingSignal(r) == r.SignalStrength_dBm.t = "nan"

ValidSignalSet == SelectSeq(df_clean, IsValidSignal)

InvalidSignalSet == SelectSeq(df_clean, IsInvalidSignal)

(* the rows of dead that have no row of live within the radius *)
Isolated(dead, live) ==
    LET alone(r) == \A v \in Range(live) :
                        haversine_sq(r, v) > radius_radians * radius_radians
    IN  SelectSeq(dead, alone)

(* analyze_data has returned a pair and its second item is at hand *)
ReturnedPair == pc = "returned" /\ ret.kind = "tuple"

---------------------------------------------------------------------------
(* Properties of analyze_data, checked under Spec *)

(* C1: in every run where the valid-signal set is empty and the            *)
(* invalid-signal set is not, the confirmed-dead-zone set returned equals  *)
(* the invalid-signal set exactly.                                         *)
C1_NoValidConfirmsEveryInvalid ==
    (pc = "returned" /\ ~empty(df_clean)
        /\ empty(ValidSignalSet) /\ ~empty(InvalidSignalSet))
    => (ret.kind = "tuple" /\ ret.items[2] = InvalidSignalSet)

(* C2: for every valid-signal set V and invalid-signal set I of the        *)
(* classifier, the confirmed-dead-zone set returned is exactly the rows of *)
(* I with no row of V within the 10 metre radius.                          *)
C2_ConfirmedIsIsolatedInvalid ==
    (pc = "returned" /\ ~empty(df_clean))
    => (ret.kind = "tuple"
        /\ ret.items[2] = Isolated(InvalidSignalSet, ValidSignalSet))

(* C3: adding one valid-signal record and running again yields a           *)
(* confirmed-dead-zone set that is a subset of the original run's.         *)
C3_AddedValidNeverConfirms ==
    (rerun /\ pc = "done" /\ first_run.ended = "done")
    => Range(no_signal_df) \subseteq Range(first_run.no_signal_df)

(* C4 as stated: the boundary is open.  A valid-signal point at exactly    *)
(* the radius, with none closer, leaves the invalid-signal point           *)
(* confirmed; a valid-signal point strictly closer excludes it.            *)
C4_OpenRadius ==
    ReturnedPair =>
        \A r \in Range(InvalidSignalSet) :
            LET d2(v) == haversine_sq(r, v)
                r2 == radius_radians * radius_radians
            IN  /\ ((\E v \in Range(ValidSignalSet) : d2(v) = r2)
                    /\ (\A v \in Range(ValidSignalSet) : d2(v) >= r2))
                   => r \in Range(ret.items[2])
                /\ (\E v \in Range(ValidSignalSet) : d2(v) < r2)
                   => r \notin Range(ret.items[2])

(* C4 amended: the boundary is closed.  A valid-signal point at exactly    *)
(* the radius, or closer, is counted and excludes the invalid-signal       *)
(* point; with every valid-signal point strictly farther than the radius   *)
(* (and at least one valid-signal point) it is confirmed.                  *)
C4_ClosedRadius ==
    ReturnedPair =>
        \A r \in Range(InvalidSignalSet) :
            LET d2(v) == haversine_sq(r, v)
                r2 == radius_radians * radius_radians
            IN  /\ (\E v \in Range(ValidSignalSet) : d2(v) = r2)
                   => r \notin Range(ret.items[2])
                /\ (\E v \in Range(ValidSignalSet) : d2(v) < r2)
                   => r \notin Range(ret.items[2])
                /\ (~empty(ValidSignalSet)
                    /\ \A v \in Range(ValidSignalSet) : d2(v) > r2)
                   => r \in Range(ret.items[2])

(* an invalid-signal point whose nearest valid-signal point is exactly at  *)
(* the radius has been left out of the returned confirmed set              *)
C4_Witness ==
    /\ ReturnedPair
    /\ \E r \in Range(InvalidSignalSet) :
          /\ \E v \in Range(ValidSignalSet) :
                haversine_sq(r, v) = radius_radians * radius_radians
          /\ \A v \in Range(ValidSignalSet) :
                haversine_sq(r, v) >= radius_radians * radius_radians
          /\ r \notin Range(ret.items[2])

(* C5: for an input with no validated-location record, no valid-signal     *)
(* record or no invalid-signal record, analyze_data hands its caller the   *)
(* two-part result the caller unpacks, nothing is raised, and a part with  *)
(* no data is empty.                                                       *)
C5_EmptyInputsGiveTwoParts ==
    /\ pc # "ValueError"
    /\ (pc = "returned"
        /\ (empty(df_clean) \/ empty(ValidSignalSet)
            \/ empty(InvalidSignalSet)))
       => /\ ret.kind = "tuple"
          /\ empty(ValidSignalSet) => empty(ret.items[1])
          /\ empty(InvalidSignalSet) => empty(ret.items[2])

(* C6: on every return path the first value returned is the valid-signal   *)
(* set: the validated records with -150 < strength < 0, and all of them.   *)
C6_FirstOutputIsValidSignalSet ==
    pc = "returned" => ret.items[1] = ValidSignalSet

(* the classifier has computed both of its sets *)
Classified ==
    \/ pc \in {"confirm", "report"}
    \/ (pc \in {"returned", "done"} /\ ~empty(df_valid_signal))

(* C7 as stated: every validated record is in exactly one of valid-signal, *)
(* invalid-signal and excluded-sentinel (strength >= 0), and -150 and 0    *)
(* are never valid.                                                        *)
C7_ThreeWayPartition ==
    Classified =>
        /\ df_valid_signal = SelectSeq(df_clean, IsValidSignal)
        /\ df_invalid_signal = SelectSeq(df_clean, IsInvalidSignal)
        /\ \A r \in Range(df_clean) :
              \/ IsValidSignal(r) /\ ~IsInvalidSignal(r) /\ ~IsSentinelSignal(r)
              \/ ~IsValidSignal(r) /\ IsInvalidSignal(r) /\ ~IsSentinelSignal(r)
              \/ ~IsValidSignal(r) /\ ~IsInvalidSignal(r) /\ IsSentinelSignal(r)

(* C7 amended: the excluded remainder is the validated records whose       *)
(* strength is >= 0 or missing (NaN); with that remainder the three sets   *)
(* are pairwise disjoint and cover the validated set, and -150 and 0 are   *)
(* never in the valid-signal set.                                          *)
C7_PartitionWithMissing ==
    Classified =>
        /\ df_valid_signal = SelectSeq(df_clean, IsValidSignal)
        /\ df_invalid_signal = SelectSeq(df_clean, IsInvalidSignal)
        /\ Range(df_valid_signal) \cap Range(df_invalid_signal) = {}
        /\ \A r \in Range(df_clean) :
              LET excluded == IsSentinelSignal(r) \/ IsMissingSignal(r)
              IN  /\ (r \in Range(df_valid_signal)
                      \/ r \in Range(df_invalid_signal) \/ excluded)
                  /\ ~(r \in Range(df_valid_signal) /\ excluded)
                  /\ ~(r \in Range(df_invalid_signal) /\ excluded)
        /\ \A r \in Range(df_valid_signal) :
              r.SignalStrength_dBm.n \notin {MinValidDbm, MaxValidDbm}

(* the classifier has run on a validated set holding a valid-signal row,   *)
(* an invalid-signal row at the boundary -150 or below, and a row it       *)
(* leaves out                                                              *)
C7_Witness ==
    /\ Classified
    /\ ~empty(df_valid_signal)
    /\ ~empty(df_invalid_signal)
    /\ Len(df_valid_signal) + Len(df_invalid_signal) < Len(df_clean)

(* C10: after analyze_data ran, every record of the caller's input has the *)
(* field values it had before the call.                                    *)
C10_InputReadOnly ==
    pc \in {"returned", "done", "ValueError"} => df = arg_before

---------------------------------------------------------------------------
(* Properties of the validator and of the upload handler *)

(* a row with its coordinates written as numbers *)
WithNumericCoordinates(r) ==
    [r EXCEPT !.Latitude = Num(NumericValue(r.Latitude)),
              !.Longitude = Num(NumericValue(r.Longitude))]

(* the records of a raw frame with a usable location, in its order *)
ValidatedSet(frame) ==
    LET kept == SelectSeq(frame, HasUsableLocation)
    IN  [k \in 1..Len(kept) |-> WithNumericCoordinates(kept[k])]

AfterFilterLocation ==
    pc \in {"clean_check", "valid_check", "confirm", "report", "returned",
            "done", "ValueError"}

(* C8: the validated set holds exactly the input records whose latitude    *)
(* and longitude are both numeric, not missing and not zero, so it is      *)
(* never larger than the input; analyze_data and the per-file              *)
(* pre-processing of app.py apply the same rule.                           *)
C8_ValidatedIsUsableLocations ==
    /\ AfterFilterLocation =>
          /\ df_clean = ValidatedSet(arg_before)
          /\ Len(df_clean) <= Len(arg_before)
    /\ \A k \in 1..Len(file_cleans) :
          /\ file_cleans[k] = ValidatedSet(files[k])
          /\ Len(file_cleans[k]) <= Len(files[k])
    /\ (entry = "app" /\ AfterFilterLocation) =>
          df_clean = concat(file_cleans)

(* the app has validated two files, dropping a record of one and keeping   *)
(* a record, and analyze_data has validated their concatenation            *)
C8_Witness ==
    /\ entry = "app"
    /\ pc = "clean_check"
    /\ Len(files) = 2
    /\ \E k \in 1..2 : Len(file_cleans[k]) < Len(files[k])
    /\ 0 < Len(df_clean)
    /\ Len(df_clean) < Len(concat(files))

(* the parsed timestamps of a file's validated records *)
Timestamps(file) ==
    { to_datetime(r.Time).n :
        r \in { x \in Range(file) :
                  HasUsableLocation(x) /\ to_datetime(x.Time).t = "num" } }

SetMax(S) == CHOOSE x \in S : \A y \in S : y <= x

SetMin(S) == CHOOSE x \in S : \A y \in S : x <= y

(* latest minus earliest timestamp of a file; 0 for a file without any *)
FileSpan(file) ==
    IF Timestamps(file) = {} THEN 0
    ELSE SetMax(Timestamps(file)) - SetMin(Timestamps(file))

RECURSIVE SumOfSpans(_)
SumOfSpans(fs) ==
    IF fs = <<>> THEN 0
    ELSE SumOfSpans(SubSeq(fs, 1, Len(fs) - 1)) + FileSpan(fs[Len(fs)])

(* latest minus earliest timestamp across all the files *)
GlobalSpan(fs) == FileSpan(concat(fs))

(* C9: after any sequence of uploaded files was processed,                 *)
(* total_duration_seconds is the sum over the files of the span between    *)
(* the earliest and the latest parseable timestamp of the file's validated *)
(* records, a file without one adding 0; gaps between files add nothing.   *)
C9_DurationIsSumOfFileSpans ==
    (entry = "app" /\ pc \notin {"app", "file_coerce", "file_clean",
                                 "file_metrics", "file_append"})
    => total_duration_seconds = SumOfSpans(SubSeq(files, 1, Len(df_list)))

(* two files were processed, the first spanning some time, with an idle    *)
(* gap before the second: the total is less than the span across files     *)
C9_Witness ==
    /\ entry = "app"
    /\ pc = "concat"
    /\ Len(files) = 2
    /\ FileSpan(files[1]) > 0
    /\ Timestamps(files[2]) # {}
    /\ total_duration_seconds = FileSpan(files[1]) + FileSpan(files[2])
    /\ total_duration_seconds < GlobalSpan(files)

---------------------------------------------------------------------------
(* Properties of the percentages of analyze_data *)

Printed(figure) == \E k \in 1..Len(percentages) : percentages[k].figure = figure

===========================================================================
